---- MODULE Spec2Model ----
(***************************************************************************)
(* Model of the indexed-archive subsystem of 3d-tiles-validator:           *)
(* validator/lib/archive.js (index lookup, index validation, container     *)
(* header parsing, the indexed and the enumerating reader) and             *)
(* validator/lib/sqlite.js (the keyed-table reader).                       *)
(*                                                                         *)
(* Buffers are sequences of bytes (1-based here, 0-based in the source:    *)
(* byte k of the source is buf[k+1]).  Unsigned little-endian reads are    *)
(* evaluated by Horner's rule from the most significant byte, so a read    *)
(* whose value is small never forms a large intermediate number.           *)
(***************************************************************************)
EXTENDS Integers, Sequences, FiniteSets, TLC

VARIABLES
    \* ---- index specification (SpecIndex) ----
    zipIndex,      \* the in-memory index: sequence of [md5hash, offset]
    searchHash,    \* the hash looked up
    quick,         \* validateIndex's third argument
    op,            \* which operation has run: "none", "find", "search", "validate"
    findResult,    \* zipIndexFind's return value (an array position, or -1)
    searchResult,  \* searchIndex's return value (an entry, or undefined)
    report,        \* what validateIndex logged and returned
    \* ---- directory specification (SpecDir) ----
    window,        \* the trailing bytesToRead bytes of the container
    lastEntry,     \* what getLastCentralDirectoryEntry returned
    dpc,           \* position in readIndex's chain: "start", "located", "scan", "done"
    currentOffset, \* the extra-field scan's currentOffset
    dirResult,     \* outcome of validateCentralDirectoryHeaderAndGetFileContents
    \* ---- reader specification (Spec) ----
    file,          \* the bytes of the container
    called,        \* the exported function the caller called
    performIndexValidation,  \* getIndexReader's second argument
    pc,            \* where the call stands
    handles,       \* the container handles that are open
    indexKind,     \* what readIndex resolved with: "array" or "number" (-1)
    zipState,      \* the StreamZip of slowValidateIndex
    svPos,         \* the next directory record StreamZip reports
    zipFileEntriesCount,     \* slowValidateIndex's counter
    svPromise,     \* the promise of slowValidateIndex, before its .catch
    backend,       \* the reader that was constructed
    lastRead,      \* the last readBinary / readJson call and its outcome
    log,           \* the kinds of console messages written so far
    \* ---- index blob specification (SpecCodec) ----
    pairs,         \* the (hash, offset) pairs the blob was laid out from
    indexData      \* the blob handed to parseIndexData

indexVars == <<zipIndex, searchHash, quick, op, findResult, searchResult, report>>
dirVars == <<window, lastEntry, dpc, currentOffset, dirResult>>
readerVars == <<file, called, performIndexValidation, pc, handles, indexKind, zipState,
                svPos, zipFileEntriesCount, svPromise, backend, lastRead, log>>
codecVars == <<pairs, indexData>>
vars == <<indexVars, dirVars, readerVars, codecVars>>

(***************************************************************************)
(* Bounds of the model.                                                    *)
(***************************************************************************)
MaxIndexLen == 3    \* longest index drawn in SpecIndex
MaxExtras == 2      \* most extra-field records of a directory entry in SpecDir
MaxIndexEntries == 2 \* most entries of the index stored in a container in Spec
MaxPairs == 2       \* most (hash, offset) pairs laid out as a blob in SpecCodec
MaxPayloadEntries == 3 \* most 24-byte records in an index payload in SpecReadIndex

(***************************************************************************)
(* Byte-level helpers.                                                     *)
(***************************************************************************)
HashLen == 16

RECURSIVE ReadUIntLE(_, _, _)
\* Buffer.readUInt16LE / readUInt32LE / readBigUInt64LE: the n bytes that
\* start at 0-based offset off, least significant first.
ReadUIntLE(buf, off, n) ==
    IF n = 0 THEN 0
    ELSE buf[off + 1] + 256 * ReadUIntLE(buf, off + 1, n - 1)

readBigUInt64LE(buf, off) == ReadUIntLE(buf, off, 8)

RECURSIVE BufferCompareFrom(_, _, _)
\* Buffer.compare: byte-wise lexicographic, -1, 0 or 1
BufferCompareFrom(a, b, i) ==
    IF i > Len(a) /\ i > Len(b) THEN 0
    ELSE IF i > Len(a) THEN -1
    ELSE IF i > Len(b) THEN 1
    ELSE IF a[i] < b[i] THEN -1
    ELSE IF a[i] > b[i] THEN 1
    ELSE BufferCompareFrom(a, b, i + 1)

BufferCompare(a, b) == BufferCompareFrom(a, b, 1)

\* A JavaScript BigInt and a JavaScript Number are different types: === and
\* !== between them never see them equal.
BigInt(n) == [t |-> "bigint", v |-> n]
Number(n) == [t |-> "number", v |-> n]
StrictEquals(a, b) == a.t = b.t /\ a.v = b.v

(***************************************************************************)
(* md5LessThan, zipIndexFind, searchIndex                                  *)
(***************************************************************************)
\* mutation: the hashes compared as byte strings instead of as two words
md5LessThan_bytewise(md5hashA, md5hashB) ==
    BufferCompare(md5hashA, md5hashB) < 0

\* mutation: the second word compared with <= instead of <
md5LessThan_orEqual(md5hashA, md5hashB) ==
    LET aLo == readBigUInt64LE(md5hashA, 0)
        bLo == readBigUInt64LE(md5hashB, 0)
    IN  IF aLo = bLo
        THEN readBigUInt64LE(md5hashA, 8) <= readBigUInt64LE(md5hashB, 8)
        ELSE aLo < bLo

md5LessThan(md5hashA, md5hashB) ==
    LET aLo == readBigUInt64LE(md5hashA, 0)
        bLo == readBigUInt64LE(md5hashB, 0)
    IN  IF aLo = bLo
        THEN LET aHi == readBigUInt64LE(md5hashA, 8)
                 bHi == readBigUInt64LE(md5hashB, 8)
             IN  aHi < bHi
        ELSE aLo < bLo

RECURSIVE zipIndexFindLoop(_, _, _, _)
\* the while loop of zipIndexFind; the array is 0-based in the source
zipIndexFindLoop(index, hash, low, high) ==
    IF low <= high
    THEN LET mid == low + ((high - low) \div 2)
             entry == index[mid + 1]
         IN  IF BufferCompare(entry.md5hash, hash) = 0 THEN mid
             ELSE IF md5LessThan(index[mid + 1].md5hash, hash)
                  THEN zipIndexFindLoop(index, hash, mid + 1, high)
                  ELSE zipIndexFindLoop(index, hash, low, mid - 1)
    ELSE -1

zipIndexFind(index, hash) == zipIndexFindLoop(index, hash, 0, Len(index) - 1)

Undefined == [t |-> "undefined", v |-> 0]

\* searchIndex without the hashing of the path: the entry, or undefined
searchIndexHash(index, hashedSearchPath) ==
    LET matchedIndex == zipIndexFind(index, hashedSearchPath)
    IN  IF matchedIndex = -1
        THEN [found |-> FALSE, md5hash |-> <<>>, offset |-> Undefined]
        ELSE [found |-> TRUE, md5hash |-> index[matchedIndex + 1].md5hash,
              offset |-> index[matchedIndex + 1].offset]

(***************************************************************************)
(* Container records: constants and buffer primitives                      *)
(***************************************************************************)
bytesToRead == 320
ZIP_LOCAL_FILE_HEADER_STATIC_SIZE == 30
ZIP_CENTRAL_DIRECTORY_STATIC_SIZE == 46
ZIP64_EXTENDED_INFORMATION_EXTRA_SIG == 1

RECURSIVE LE(_, _)
\* the k little-endian bytes of n
LE(n, k) == IF k = 0 THEN <<>> ELSE <<n % 256>> \o LE(n \div 256, k - 1)

\* 0x06054b50, 0x02014b50, 0x04034b50 and 0xFFFFFFFF as readUInt32LE sees them
ZIP_END_OF_CENTRAL_DIRECTORY_HEADER_SIG == <<80, 75, 5, 6>>
ZIP_START_OF_CENTRAL_DIRECTORY_HEADER_SIG == <<80, 75, 1, 2>>
ZIP_LOCAL_FILE_HEADER_SIG == <<80, 75, 3, 4>>
OFFSET_IN_ZIP64_EXTRA == <<255, 255, 255, 255>>

Min(a, b) == IF a < b THEN a ELSE b
Max(a, b) == IF a > b THEN a ELSE b

\* Buffer.slice(start, end) with 0-based start and exclusive end, clamped
Slice(buf, start, end) == SubSeq(buf, Min(start, Len(buf)) + 1, Min(end, Len(buf)))

\* a read of n bytes at 0-based off is in range (otherwise it throws RangeError)
InRange(buf, off, n) == off >= 0 /\ off + n <= Len(buf)

\* the four bytes readUInt32LE(off) reads
readUInt32LE(buf, off) == SubSeq(buf, off + 1, off + 4)
readUInt16LE(buf, off) == ReadUIntLE(buf, off, 2)

Zeros(n) == [i \in 1..n |-> 0]

\* Buffer.toString('utf8', ...) compared with a name: the names of the model
\* are ASCII, so the strings are equal exactly when the bytes are
Utf8(name) ==
    CASE name = "@3dtilesIndex1@" ->
             <<64, 51, 100, 116, 105, 108, 101, 115, 73, 110, 100, 101, 120, 49, 64>>
      [] name = "tileset.json" ->
             <<116, 105, 108, 101, 115, 101, 116, 46, 106, 115, 111, 110>>
      [] name = "c.b3dm" -> <<99, 46, 98, 51, 100, 109>>
      [] name = "a/" -> <<97, 47>>
      [] name = "a\\b.b3dm" -> <<97, 92, 98, 46, 98, 51, 100, 109>>
      [] name = "a/b.b3dm" -> <<97, 47, 98, 46, 98, 51, 100, 109>>
      [] OTHER -> <<63>>

(***************************************************************************)
(* getLastCentralDirectoryEntry (lines 35-60)                              *)
(***************************************************************************)
\* one iteration of the backward for loop (lines 44-51) at position i
lastEntryStep(buffer, i, acc) ==
    LET val == readUInt32LE(buffer, i)
        end2 == IF val = ZIP_END_OF_CENTRAL_DIRECTORY_HEADER_SIG THEN i ELSE acc.end
    IN  IF val = ZIP_START_OF_CENTRAL_DIRECTORY_HEADER_SIG
        THEN [start |-> i, end |-> end2, broke |-> TRUE]
        ELSE [start |-> acc.start, end |-> end2, broke |-> FALSE]

RECURSIVE lastEntryLoop(_, _, _, _)
\* the iterations for i = hi down to lo, in that order, until the break;
\* the range is halved so that the evaluation stays shallow
lastEntryLoop(buffer, hi, lo, acc) ==
    IF acc.broke \/ hi < lo THEN acc
    ELSE IF hi = lo THEN lastEntryStep(buffer, hi, acc)
    ELSE LET mid == (hi + lo) \div 2
         IN  lastEntryLoop(buffer, mid, lo, lastEntryLoop(buffer, hi, mid + 1, acc))

\* the value the promise resolves with; no path of the function rejects
getLastCentralDirectoryEntry(buffer) ==
    LET se == lastEntryLoop(buffer, Len(buffer) - 4, 1,
                            [start |-> 0, end |-> 0, broke |-> FALSE])
        start == se.start
        end == se.end
    IN  [failed |-> FALSE,
         start |-> start,
         end |-> end,
         buffer |-> IF start # end THEN Slice(buffer, start, Len(buffer)) ELSE buffer]

(***************************************************************************)
(* validateCentralDirectoryHeaderAndGetFileContents (lines 62-137)         *)
(***************************************************************************)
\* bit b of a 16-bit value
Bit(v, b) == (v \div (2 ^ b)) % 2

\* mutation: the mask without the bit of the encrypted central directory
DisallowedBitsSet_withoutBit13(bitflags) == { b \in {0, 3, 5} : Bit(bitflags, b) = 1 }

\* disallowed_flags_mask & header.bitflags, as the set of bits that are set
DisallowedBitsSet(bitflags) == { b \in {0, 3, 5, 13} : Bit(bitflags, b) = 1 }

NoDirResult == [err |-> "pending", offset |-> Undefined, readSize |-> 0]

DirError(kind) == [err |-> kind, offset |-> Undefined, readSize |-> 0]

\* localFileHeaderSize (lines 128-130)
localFileHeaderSize(buffer) ==
    ZIP_LOCAL_FILE_HEADER_STATIC_SIZE + readUInt16LE(buffer, 28) + 48
        + ReadUIntLE(buffer, 20, 4)

\* lines 64-110: the checks before the offset is resolved, in the order of
\* the reads (a read past the end of the buffer throws a RangeError).  The
\* result is "scan" when the 32-bit offset is the sentinel, an error, or the
\* final result with the 32-bit offset.
dirHeaderChecks(buffer, expectedFilename) ==
    IF ~InRange(buffer, 0, 4) THEN DirError("RangeError")
    ELSE IF readUInt32LE(buffer, 0) # ZIP_START_OF_CENTRAL_DIRECTORY_HEADER_SIG
    THEN DirError("BadSignature")
    ELSE IF ~InRange(buffer, 4, 6) THEN DirError("RangeError")
    ELSE IF DisallowedBitsSet(readUInt16LE(buffer, 8)) # {}
    THEN DirError("DisallowedFeature")
    ELSE IF ~InRange(buffer, 10, 2) THEN DirError("RangeError")
    ELSE IF readUInt16LE(buffer, 10) # 0
    THEN DirError("UnsupportedCompression")
    ELSE IF ~InRange(buffer, 12, 30) THEN DirError("RangeError")
    ELSE IF Slice(buffer, ZIP_CENTRAL_DIRECTORY_STATIC_SIZE,
                  ZIP_CENTRAL_DIRECTORY_STATIC_SIZE + readUInt16LE(buffer, 28))
              # Utf8(expectedFilename)
    THEN DirError("NameMismatch")
    ELSE IF ~InRange(buffer, 42, 4) THEN DirError("RangeError")
    ELSE IF readUInt32LE(buffer, 42) = OFFSET_IN_ZIP64_EXTRA
    THEN [err |-> "scan", offset |-> Undefined, readSize |-> 0]
    ELSE [err |-> "none", offset |-> Number(ReadUIntLE(buffer, 42, 4)),
          readSize |-> localFileHeaderSize(buffer)]

endExtrasOffset(buffer) ==
    ZIP_CENTRAL_DIRECTORY_STATIC_SIZE + readUInt16LE(buffer, 28) + readUInt16LE(buffer, 30)

\* line 120: currentOffset += extra_size
nextExtraOffset(buffer, cur) == cur + readUInt16LE(buffer, cur + 2)

\* line 114: the record at cur is the zip64 extended information record
isZip64Record(buffer, cur) ==
    /\ readUInt16LE(buffer, cur) = ZIP64_EXTENDED_INFORMATION_EXTRA_SIG
    /\ readUInt16LE(buffer, cur + 2) = 8

(***************************************************************************)
(* SpecDir: the first half of readIndex's chain (lines 380-385) on the     *)
(* trailing window of a container.  The window is laid out as zero         *)
(* padding, the last directory entry record, the end-of-directory record.  *)
(***************************************************************************)
\* one extra-field record: tag, size, data
ExtraRecord(kind) ==
    CASE kind = "zip64" -> <<1, 0, 8, 0>> \o LE(4660, 8)
      [] kind = "time"  -> <<85, 84, 5, 0, 3, 9, 9, 9, 9>>
      [] kind = "empty" -> <<7, 0, 0, 0>>
      [] kind = "pad"   -> <<10, 0, 4, 0, 0, 0, 4, 0>>

ExtraKinds == {"zip64", "time", "empty", "pad"}

RECURSIVE ExtraBytes(_)
ExtraBytes(kinds) ==
    IF kinds = <<>> THEN <<>> ELSE ExtraRecord(Head(kinds)) \o ExtraBytes(Tail(kinds))

ExtraLists == UNION { [1..n -> ExtraKinds] : n \in 0..MaxExtras }

\* a directory entry record with the fields the parser reads (lines 65-105)
DirectoryRecord(hasSig, bitflags, method, compSize, name, offset4, extra) ==
    (IF hasSig THEN ZIP_START_OF_CENTRAL_DIRECTORY_HEADER_SIG ELSE Zeros(4))
    \o LE(20, 2) \o LE(20, 2) \o LE(bitflags, 2) \o LE(method, 2)
    \o Zeros(4) \o Zeros(4) \o LE(compSize, 4) \o LE(compSize, 4)
    \o LE(Len(Utf8(name)), 2) \o LE(Len(extra), 2) \o Zeros(2)
    \o Zeros(2) \o Zeros(2) \o Zeros(4) \o offset4
    \o Utf8(name) \o extra

EndRecord(hasEnd) ==
    (IF hasEnd THEN ZIP_END_OF_CENTRAL_DIRECTORY_HEADER_SIG ELSE Zeros(4)) \o Zeros(18)

TrailingWindow(record, hasEnd) ==
    Zeros(bytesToRead - Len(record) - Len(EndRecord(hasEnd))) \o record \o EndRecord(hasEnd)

NoLastEntry == [failed |-> FALSE, start |-> 0, end |-> 0, buffer |-> <<>>]

DirIdle ==
    /\ window = <<>>
    /\ lastEntry = NoLastEntry
    /\ dpc = "idle"
    /\ currentOffset = 0
    /\ dirResult = NoDirResult

NoPromise == [state |-> "none", reason |-> "none", name |-> ""]

NoRead == [op |-> "none", path |-> "", outcome |-> "none", err |-> "", data |-> <<>>]

ReaderIdle ==
    /\ file = <<>>
    /\ called = "none"
    /\ performIndexValidation = FALSE
    /\ pc = "idle"
    /\ handles = {}
    /\ indexKind = "none"
    /\ zipState = "none"
    /\ svPos = 0
    /\ zipFileEntriesCount = 0
    /\ svPromise = NoPromise
    /\ backend = "none"
    /\ lastRead = NoRead
    /\ log = {}

CodecIdle ==
    /\ pairs = <<>>
    /\ indexData = <<>>

IndexIdle ==
    /\ zipIndex = <<>>
    /\ searchHash = <<>>
    /\ quick = FALSE
    /\ op = "idle"
    /\ findResult = -1
    /\ searchResult = [found |-> FALSE, md5hash |-> <<>>, offset |-> Undefined]
    /\ report = [valid |-> FALSE, wrongOrder |-> {}, collisions |-> <<>>,
                 rootFound |-> FALSE, rootRead |-> FALSE, slowRan |-> FALSE]

\* general-purpose flag words: none, each disallowed bit alone, an allowed
\* bit (11, UTF-8 names), and a disallowed bit together with an allowed one
DirBitflags == {0, 1, 8, 32, 8192, 2048, 2056}

InitDir ==
    /\ IndexIdle
    /\ ReaderIdle
    /\ CodecIdle
    /\ \E hasSig \in BOOLEAN, hasEnd \in BOOLEAN, bitflags \in DirBitflags,
          method \in {0, 8}, name \in {"@3dtilesIndex1@", "tileset.json"},
          offset4 \in {LE(1000, 4), OFFSET_IN_ZIP64_EXTRA}, kinds \in ExtraLists :
          window = TrailingWindow(
                       DirectoryRecord(hasSig, bitflags, method, 24, name, offset4,
                                       ExtraBytes(kinds)),
                       hasEnd)
    /\ lastEntry = NoLastEntry
    /\ dpc = "start"
    /\ currentOffset = 0
    /\ dirResult = NoDirResult

\* readIndex line 381
LocateDirectoryEntry ==
    /\ dpc = "start"
    /\ lastEntry' = getLastCentralDirectoryEntry(window)
    /\ dpc' = "located"
    /\ UNCHANGED <<window, currentOffset, dirResult, indexVars, readerVars, codecVars>>

\* readIndex line 384, validateCentralDirectoryHeaderAndGetFileContents
\* lines 64-110
ParseDirectoryHeader ==
    /\ dpc = "located"
    /\ LET r == dirHeaderChecks(lastEntry.buffer, "@3dtilesIndex1@")
       IN  IF r.err = "scan"
           THEN /\ dpc' = "scan"
                /\ currentOffset' = ZIP_CENTRAL_DIRECTORY_STATIC_SIZE
                                       + readUInt16LE(lastEntry.buffer, 28)
                /\ UNCHANGED dirResult
           ELSE /\ dpc' = "done"
                /\ dirResult' = r
                /\ UNCHANGED currentOffset
    /\ UNCHANGED <<window, lastEntry, indexVars, readerVars, codecVars>>

\* one iteration of the while loop (lines 111-122); when the record
\* matches, the loop ends and the function goes on to the read (128-136)
ScanExtraField ==
    /\ dpc = "scan"
    /\ currentOffset < endExtrasOffset(lastEntry.buffer)
    /\ LET buffer == lastEntry.buffer
       IN  IF ~InRange(buffer, currentOffset, 4)
           THEN /\ dirResult' = DirError("RangeError")
                /\ dpc' = "done"
                /\ UNCHANGED currentOffset
           ELSE IF isZip64Record(buffer, currentOffset)
           THEN /\ dirResult' =
                      IF InRange(buffer, currentOffset + 4, 8)
                      THEN [err |-> "none",
                            offset |-> BigInt(readBigUInt64LE(buffer, currentOffset + 4)),
                            readSize |-> localFileHeaderSize(buffer)]
                      ELSE DirError("RangeError")
                /\ dpc' = "done"
                /\ UNCHANGED currentOffset
           ELSE /\ currentOffset' = nextExtraOffset(buffer, currentOffset)
                /\ UNCHANGED <<dpc, dirResult>>
    /\ UNCHANGED <<window, lastEntry, indexVars, readerVars, codecVars>>

\* the loop ends without a match (lines 111, 123-125)
ScanExhausted ==
    /\ dpc = "scan"
    /\ currentOffset >= endExtrasOffset(lastEntry.buffer)
    /\ dirResult' = DirError("MissingZip64Offset")
    /\ dpc' = "done"
    /\ UNCHANGED <<window, lastEntry, currentOffset, indexVars, readerVars, codecVars>>

NextDir ==
    \/ LocateDirectoryEntry
    \/ ParseDirectoryHeader
    \/ ScanExtraField
    \/ ScanExhausted

SpecDir == InitDir /\ [][NextDir]_vars

\* the while loop of lines 111-122 is synchronous code: once entered it
\* keeps running while it has a step to take
SpecDirLive == InitDir /\ [][NextDir]_vars /\ WF_vars(ScanExtraField \/ ScanExhausted)

(***************************************************************************)
(* crypto.createHash('md5').update(name).digest(): a fixed injective table *)
(* from the names of the model to 16-byte digests.  The digests differ in  *)
(* bytes 0, 1 (first word) and 8 (second word).                            *)
(***************************************************************************)
ByteVals == {0, 1}
VaryingBytes == {1, 2, 9}

MkHash(b0, b1, b8) ==
    [i \in 1..HashLen |-> IF i = 1 THEN b0 ELSE IF i = 2 THEN b1
                          ELSE IF i = 9 THEN b8 ELSE 0]

Hashes == { MkHash(b0, b1, b8) : b0 \in ByteVals, b1 \in ByteVals, b8 \in ByteVals }

md5(name) ==
    CASE name = "tileset.json"  -> MkHash(1, 0, 0)
      [] name = "a/b.b3dm"      -> MkHash(0, 1, 0)
      [] name = "c.b3dm"        -> MkHash(1, 1, 0)
      [] name = "a\\b.b3dm"     -> MkHash(0, 1, 1)
      [] OTHER                  -> MkHash(1, 1, 1)

(***************************************************************************)
(* validateIndex: the ordering pass (lines 282-307)                        *)
(***************************************************************************)
RECURSIVE orderingLoop(_, _, _)
\* the for loop over i = 1 .. numItems-1 (0-based positions i-1 and i);
\* acc.wrongOrder holds every i that got the "Wrong sort order" warning
orderingLoop(index, i, acc) ==
    IF i < Len(index)
    THEN LET prevEntry == index[i]
             curEntry == index[i + 1]
             coll == IF BufferCompare(prevEntry.md5hash, curEntry.md5hash) = 0
                     THEN Append(acc.collisions, <<i - 1, i>>)
                     ELSE acc.collisions
             bad == ~md5LessThan(prevEntry.md5hash, curEntry.md5hash)
         IN  orderingLoop(index, i + 1,
                 [valid |-> IF bad THEN FALSE ELSE acc.valid,
                  wrongOrder |-> IF bad THEN acc.wrongOrder \cup {i} ELSE acc.wrongOrder,
                  collisions |-> coll])
    ELSE acc

checkOrdering(index) ==
    LET start == [valid |-> TRUE, wrongOrder |-> {}, collisions |-> <<>>]
    IN  IF Len(index) > 1 THEN orderingLoop(index, 1, start) ELSE start

\* mutation: the thorough pass started whatever the cheaper checks found
slowValidationDue_ignoringValid(q, valid) == ~q

\* line 326: !quick && valid
slowValidationDue(q, valid) == ~q /\ valid

\* validateIndex as a function of its arguments and of what the container
\* answers: rootReadOk, whether readZipLocalFileHeader at the root entry's
\* offset succeeds, and slowOk, what slowValidateIndex returns.
validateIndex(index, q, rootReadOk, slowOk) ==
    LET ord == checkOrdering(index)
        rootIndex == zipIndexFind(index, md5("tileset.json"))
        v2 == ord.valid /\ rootIndex # -1 /\ rootReadOk
        slow == slowValidationDue(q, v2)
    IN  [valid |-> IF slow THEN slowOk ELSE v2,
         wrongOrder |-> ord.wrongOrder, collisions |-> ord.collisions,
         rootFound |-> rootIndex # -1, rootRead |-> rootIndex # -1,
         slowRan |-> slow]

(***************************************************************************)
(* SpecIndex: the index operations applied to every index of at most       *)
(* MaxIndexLen entries.  Entry i (0-based) stores the offset OffsetAt(i).  *)
(***************************************************************************)
OffsetAt(i) == BigInt(64 + 40 * i)

Indexes ==
    UNION { { [i \in 1..n |-> [md5hash |-> h[i], offset |-> OffsetAt(i - 1)]] :
              h \in [1..n -> Hashes] } : n \in 0..MaxIndexLen }

NoReport ==
    [valid |-> FALSE, wrongOrder |-> {}, collisions |-> <<>>,
     rootFound |-> FALSE, rootRead |-> FALSE, slowRan |-> FALSE]

NoEntry == [found |-> FALSE, md5hash |-> <<>>, offset |-> Undefined]

InitIndex ==
    /\ DirIdle
    /\ ReaderIdle
    /\ CodecIdle
    /\ zipIndex \in Indexes
    /\ searchHash = <<>>
    /\ quick = FALSE
    /\ op = "none"
    /\ findResult = -1
    /\ searchResult = NoEntry
    /\ report = NoReport

DoZipIndexFind ==
    /\ op = "none"
    /\ \E h \in Hashes :
          /\ searchHash' = h
          /\ findResult' = zipIndexFind(zipIndex, h)
    /\ op' = "find"
    /\ UNCHANGED <<zipIndex, quick, searchResult, report, dirVars, readerVars, codecVars>>

DoSearchIndex ==
    /\ op = "none"
    /\ \E h \in Hashes :
          /\ searchHash' = h
          /\ searchResult' = searchIndexHash(zipIndex, h)
    /\ op' = "search"
    /\ UNCHANGED <<zipIndex, quick, findResult, report, dirVars, readerVars, codecVars>>

DoValidateIndex ==
    /\ op = "none"
    /\ \E q \in BOOLEAN, rootReadOk \in BOOLEAN, slowOk \in BOOLEAN :
          /\ quick' = q
          /\ report' = validateIndex(zipIndex, q, rootReadOk, slowOk)
    /\ op' = "validate"
    /\ UNCHANGED <<zipIndex, searchHash, findResult, searchResult, dirVars, readerVars, codecVars>>

NextIndex == DoZipIndexFind \/ DoSearchIndex \/ DoValidateIndex

SpecIndex == InitIndex /\ [][NextIndex]_vars

(***************************************************************************)
(* parseLocalFileHeaderAndValidateFilename, readZipLocalFileHeader,        *)
(* parseIndexData, and the chain of readIndex as a function of the file    *)
(***************************************************************************)
\* fsExtra.read(fd, Buffer.alloc(n), 0, n, position).buffer: the buffer
\* keeps its n bytes, zero where the file has ended
FileRead(f, position, n) ==
    [i \in 1..n |-> IF position + i <= Len(f) THEN f[position + i] ELSE 0]

LocalError(kind) == [err |-> kind, comp_size |-> 0, filename_size |-> 0, extra_size |-> 0]

parseLocalFileHeaderAndValidateFilename(buffer, expectedFilename) ==
    IF ~InRange(buffer, 0, ZIP_LOCAL_FILE_HEADER_STATIC_SIZE) THEN LocalError("RangeError")
    ELSE IF readUInt32LE(buffer, 0) # ZIP_LOCAL_FILE_HEADER_SIG THEN LocalError("BadSignature")
    ELSE IF Slice(buffer, ZIP_LOCAL_FILE_HEADER_STATIC_SIZE,
                  ZIP_LOCAL_FILE_HEADER_STATIC_SIZE + readUInt16LE(buffer, 26))
              # Utf8(expectedFilename)
    THEN LocalError("NameMismatch")
    ELSE IF ReadUIntLE(buffer, 18, 4) = 0 THEN LocalError("MissingSize")
    ELSE [err |-> "none",
          comp_size |-> ReadUIntLE(buffer, 18, 4),
          filename_size |-> readUInt16LE(buffer, 26),
          extra_size |-> readUInt16LE(buffer, 28)]

\* offset is a Number or a BigInt; Number(offset) is its value
readZipLocalFileHeader(f, offset, path) ==
    LET headerSize == ZIP_LOCAL_FILE_HEADER_STATIC_SIZE + Len(Utf8(path))
    IN  parseLocalFileHeaderAndValidateFilename(FileRead(f, offset.v, headerSize), path)

\* mutation: the offset read from the second word of the hash
parseIndexData_offsetFromHash(buffer) ==
    IF Len(buffer) % 24 # 0
    THEN [kind |-> "number", items |-> <<>>]
    ELSE [kind |-> "array",
          items |-> [i \in 1..(Len(buffer) \div 24) |->
                       [md5hash |-> SubSeq(buffer, (i - 1) * 24 + 1, (i - 1) * 24 + HashLen),
                        offset |-> BigInt(readBigUInt64LE(buffer, (i - 1) * 24 + 8))]]]

\* parseIndexData returns the array of entries, or the number -1
parseIndexData(buffer) ==
    IF Len(buffer) % 24 # 0
    THEN [kind |-> "number", items |-> <<>>]
    ELSE [kind |-> "array",
          items |-> [i \in 1..(Len(buffer) \div 24) |->
                       [md5hash |-> SubSeq(buffer, (i - 1) * 24 + 1, (i - 1) * 24 + HashLen),
                        offset |-> BigInt(readBigUInt64LE(buffer, (i - 1) * 24 + HashLen))]]]

(***************************************************************************)
(* SpecCodec: parseIndexData on blobs laid out from up to MaxPairs (hash,  *)
(* offset) pairs, in any order and with repeated hashes, with or without a *)
(* stray trailing byte.  Offsets stay below 2^31.                          *)
(***************************************************************************)
\* offsets of one, three and four significant bytes
PairOffsets == {0, 66051, 2147483647}

PairSeqs == UNION { [1..n -> [md5hash : Hashes, offset : PairOffsets]] : n \in 0..MaxPairs }

\* one 24-byte record as parseIndexData reads it (lines 344-346): the hash,
\* then the offset as 8 little-endian bytes
layoutRecord(p) == p.md5hash \o LE(p.offset, 8)

RECURSIVE layoutBlob(_)
layoutBlob(ps) == IF ps = <<>> THEN <<>> ELSE layoutRecord(Head(ps)) \o layoutBlob(Tail(ps))

InitCodec ==
    /\ DirIdle
    /\ ReaderIdle
    /\ searchHash = <<>>
    /\ quick = FALSE
    /\ op = "none"
    /\ findResult = -1
    /\ searchResult = [found |-> FALSE, md5hash |-> <<>>, offset |-> Undefined]
    /\ report = [valid |-> FALSE, wrongOrder |-> {}, collisions |-> <<>>,
                 rootFound |-> FALSE, rootRead |-> FALSE, slowRan |-> FALSE]
    /\ zipIndex = <<>>
    /\ pairs \in PairSeqs
    /\ \E junk \in {0, 1} : indexData = layoutBlob(pairs) \o Zeros(junk)

\* parseIndexData(indexData), readIndex line 402; a returned -1
\* leaves an empty zipIndex here
DoParseIndexData ==
    /\ op = "none"
    /\ zipIndex' = parseIndexData(indexData).items
    /\ op' = parseIndexData(indexData).kind
    /\ UNCHANGED <<searchHash, quick, findResult, searchResult, report, dirVars,
                   readerVars, codecVars>>

NextCodec == DoParseIndexData

SpecCodec == InitCodec /\ [][NextCodec]_vars

RECURSIVE scanExtras(_, _)
\* the while loop of lines 111-122 from currentOffset cur: the offset found,
\* "MissingZip64Offset", or "diverges" when a step leaves cur where it was
scanExtras(buffer, cur) ==
    IF cur >= endExtrasOffset(buffer) THEN DirError("MissingZip64Offset")
    ELSE IF ~InRange(buffer, cur, 4) THEN DirError("RangeError")
    ELSE IF isZip64Record(buffer, cur)
    THEN IF InRange(buffer, cur + 4, 8)
         THEN [err |-> "none", offset |-> BigInt(readBigUInt64LE(buffer, cur + 4)),
               readSize |-> localFileHeaderSize(buffer)]
         ELSE DirError("RangeError")
    ELSE IF nextExtraOffset(buffer, cur) = cur THEN DirError("diverges")
    ELSE scanExtras(buffer, nextExtraOffset(buffer, cur))

\* validateCentralDirectoryHeaderAndGetFileContents up to the read
directoryEntry(buffer, expectedFilename) ==
    LET r == dirHeaderChecks(buffer, expectedFilename)
    IN  IF r.err = "scan"
        THEN scanExtras(buffer, ZIP_CENTRAL_DIRECTORY_STATIC_SIZE + readUInt16LE(buffer, 28))
        ELSE r

IndexError(kind) == [kind |-> kind, items |-> <<>>]

\* readIndex lines 378-403 with outputFile undefined: the index array, the
\* number -1, or the error the chain rejects with
readIndexChain(f, indexFilename) ==
    LET stat_size == Len(f)
        last == getLastCentralDirectoryEntry(
                    FileRead(f, stat_size - bytesToRead, bytesToRead))
        dir == directoryEntry(last.buffer, indexFilename)
        buffer == FileRead(f, dir.offset.v, dir.readSize)
        header == parseLocalFileHeaderAndValidateFilename(buffer, indexFilename)
        dataStartOffset == ZIP_LOCAL_FILE_HEADER_STATIC_SIZE + header.filename_size
                               + header.extra_size
        indexFileDataBuffer == Slice(buffer, dataStartOffset,
                                     dataStartOffset + header.comp_size)
    IN  IF dir.err # "none" THEN IndexError(dir.err)
        ELSE IF header.err # "none" THEN IndexError(header.err)
        ELSE IF Len(indexFileDataBuffer) = 0 THEN IndexError("NoFileData")
        ELSE parseIndexData(indexFileDataBuffer)

(***************************************************************************)
(* The containers of the model: local entries for tileset.json, the        *)
(* directory a/, a/b.b3dm and the index entry, then the directory and the  *)
(* end-of-directory record.                                                *)
(***************************************************************************)
LocalRecord(hasSig, name, extra, payload) ==
    (IF hasSig THEN ZIP_LOCAL_FILE_HEADER_SIG ELSE Zeros(4))
    \o LE(20, 2) \o Zeros(2) \o Zeros(2) \o Zeros(4) \o Zeros(4)
    \o LE(Len(payload), 4) \o LE(Len(payload), 4)
    \o LE(Len(Utf8(name)), 2) \o LE(Len(extra), 2)
    \o Utf8(name) \o extra \o payload

TilesetPayload == <<123, 125, 10>>
TilePayload == <<98, 51, 100, 109>>
\* the local entry of a/b.b3dm carries an extended-timestamp extra field
TileExtra == <<85, 84, 5, 0, 3, 9, 9, 9, 9>>

TilesetOffset == 0
DirOffset == TilesetOffset + Len(LocalRecord(TRUE, "tileset.json", <<>>, TilesetPayload))
TileOffset == DirOffset + Len(LocalRecord(TRUE, "a/", <<>>, <<>>))
IndexOffset == TileOffset + Len(LocalRecord(TRUE, "a/b.b3dm", TileExtra, TilePayload))

\* what node-stream-zip reports for each directory record, in directory order
Entries ==
    << [name |-> "tileset.json", isFile |-> TRUE, offset |-> Number(TilesetOffset)],
       [name |-> "a/", isFile |-> FALSE, offset |-> Number(DirOffset)],
       [name |-> "a/b.b3dm", isFile |-> TRUE, offset |-> Number(TileOffset)],
       [name |-> "@3dtilesIndex1@", isFile |-> TRUE, offset |-> Number(IndexOffset)] >>

\* the offset of the local entry of name; c.b3dm is in no container
RealOffset(name) ==
    CASE name = "tileset.json" -> TilesetOffset
      [] name = "a/b.b3dm" -> TileOffset
      [] OTHER -> IndexOffset

\* an index entry as the index blob stores it: 16 bytes of hash, then the
\* offset as 8 little-endian bytes
IndexRecord(e) ==
    md5(e.name) \o LE(IF e.right THEN RealOffset(e.name) ELSE RealOffset(e.name) + 1, 8)

RECURSIVE IndexBlob(_)
IndexBlob(es) == IF es = <<>> THEN <<>> ELSE IndexRecord(Head(es)) \o IndexBlob(Tail(es))

IndexedNames == {"tileset.json", "a/b.b3dm", "c.b3dm"}

IndexChoices ==
    UNION { [1..n -> [name : IndexedNames, right : BOOLEAN]] : n \in 0..MaxIndexEntries }

Container(rootSig, es, junk) ==
    LET payload == IndexBlob(es) \o Zeros(junk)
    IN  LocalRecord(rootSig, "tileset.json", <<>>, TilesetPayload)
        \o LocalRecord(TRUE, "a/", <<>>, <<>>)
        \o LocalRecord(TRUE, "a/b.b3dm", TileExtra, TilePayload)
        \o LocalRecord(TRUE, "@3dtilesIndex1@", <<>>, payload)
        \o DirectoryRecord(TRUE, 0, 0, Len(TilesetPayload), "tileset.json",
                           LE(TilesetOffset, 4), <<>>)
        \o DirectoryRecord(TRUE, 0, 0, 0, "a/", LE(DirOffset, 4), <<>>)
        \o DirectoryRecord(TRUE, 0, 0, Len(TilePayload), "a/b.b3dm", LE(TileOffset, 4), <<>>)
        \o DirectoryRecord(TRUE, 0, 0, Len(payload), "@3dtilesIndex1@",
                           LE(IndexOffset, 4), <<>>)
        \o EndRecord(TRUE)

(***************************************************************************)
(* SpecReadIndex: readIndex on containers whose index entry has a local    *)
(* extra field of some length and whose directory record declares a        *)
(* compressed size that may differ from the local record's.                *)
(***************************************************************************)
\* a local extra field of n bytes: one record of tag 0xcafe, or nothing
LocalExtra(n) == IF n < 4 THEN <<>> ELSE <<254, 202>> \o LE(n - 4, 2) \o Zeros(n - 4)

\* below, at and above the 48 bytes the bounded read allows for (line 129)
LocalExtraSizes == {0, 4, 9, 48, 52, 72}

PayloadName(i) == IF i = 1 THEN "tileset.json" ELSE IF i = 2 THEN "a/b.b3dm" ELSE "c.b3dm"

\* an index payload of k records
PayloadEntries(k) == [i \in 1..k |-> [name |-> PayloadName(i), right |-> TRUE]]

IndexContainer(es, indexExtra, dirCompSize) ==
    LocalRecord(TRUE, "tileset.json", <<>>, TilesetPayload)
    \o LocalRecord(TRUE, "a/", <<>>, <<>>)
    \o LocalRecord(TRUE, "a/b.b3dm", TileExtra, TilePayload)
    \o LocalRecord(TRUE, "@3dtilesIndex1@", indexExtra, IndexBlob(es))
    \o DirectoryRecord(TRUE, 0, 0, Len(TilesetPayload), "tileset.json",
                       LE(TilesetOffset, 4), <<>>)
    \o DirectoryRecord(TRUE, 0, 0, 0, "a/", LE(DirOffset, 4), <<>>)
    \o DirectoryRecord(TRUE, 0, 0, Len(TilePayload), "a/b.b3dm", LE(TileOffset, 4), <<>>)
    \o DirectoryRecord(TRUE, 0, 0, dirCompSize, "@3dtilesIndex1@", LE(IndexOffset, 4), <<>>)
    \o EndRecord(TRUE)

InitReadIndex ==
    /\ IndexIdle
    /\ DirIdle
    /\ CodecIdle
    /\ \E k \in 1..MaxPayloadEntries, j \in 1..MaxPayloadEntries, x \in LocalExtraSizes :
          file = IndexContainer(PayloadEntries(k), LocalExtra(x), 24 * j)
    /\ called = "readIndex"
    /\ performIndexValidation = FALSE
    /\ pc = "start"
    /\ handles = {}
    /\ indexKind = "none"
    /\ zipState = "none"
    /\ svPos = 0
    /\ zipFileEntriesCount = 0
    /\ svPromise = [state |-> "none", reason |-> "none", name |-> ""]
    /\ backend = "none"
    /\ lastRead = [op |-> "none", path |-> "", outcome |-> "none", err |-> "", data |-> <<>>]
    /\ log = {}

\* readIndex(inputFile) (lines 371-412): open, the chain, the catch that logs
\* and rethrows, the finally that closes the handle
DoReadIndex ==
    /\ pc = "start"
    /\ called = "readIndex"
    /\ \E openOk \in BOOLEAN, ioOk \in BOOLEAN :
          LET r == IF openOk /\ ioOk THEN readIndexChain(file, "@3dtilesIndex1@")
                   ELSE IndexError("IOError")
          IN  IF r.kind \in {"array", "number"}
              THEN /\ zipIndex' = r.items
                   /\ indexKind' = r.kind
                   /\ log' = IF r.kind = "number"
                             THEN log \cup {"bad index buffer length"} ELSE log
                   /\ pc' = "resolved"
              ELSE /\ pc' = "failed"
                   /\ log' = log \cup {"readIndex error"}
                   /\ UNCHANGED <<zipIndex, indexKind>>
    /\ UNCHANGED <<file, called, performIndexValidation, handles, zipState, svPos,
                   zipFileEntriesCount, svPromise, backend, lastRead, quick, report,
                   searchHash, op, findResult, searchResult, dirVars, codecVars>>

NextReadIndex == DoReadIndex

SpecReadIndex == InitReadIndex /\ [][NextReadIndex]_vars

(***************************************************************************)
(* Spec: a caller calls getIndexReader, validateIndex (after readIndex),   *)
(* getZipReader, getDBReader or validate (on a .3tz input) on a container, *)
(* then reads through the reader.  Opening a handle and StreamZip's events *)
(* are the environment's steps and may fail.                               *)
(***************************************************************************)
\* util.normalizePath: backslashes become slashes
normalizePath(path) == IF path = "a\\b.b3dm" THEN "a/b.b3dm" ELSE path

\* bufferToJson: the parsed value of a buffer
bufferToJson(buffer) == <<"json">> \o buffer

ReadPaths == {"tileset.json", "a/b.b3dm", "a\\b.b3dm", "c.b3dm"}

\* the names StreamZip with storeEntries holds, and the keys of table media
StoredNames == {"tileset.json", "a/b.b3dm"}

StoredData(name) == IF name = "tileset.json" THEN TilesetPayload ELSE TilePayload

Reject(promise, reason, name) ==
    IF promise.state = "pending"
    THEN [state |-> "rejected", reason |-> reason, name |-> name]
    ELSE promise

Resolve(promise) ==
    IF promise.state = "pending"
    THEN [state |-> "resolved", reason |-> "none", name |-> ""]
    ELSE promise

\* the 'entry' handler of slowValidateIndex (lines 254-269)
onEntry(index, e, count, promise) ==
    IF e.isFile /\ e.name # "@3dtilesIndex1@"
    THEN LET hash == md5(e.name)
             found == zipIndexFind(index, hash)
         IN  [count |-> count + 1,
              promise |->
                  IF found = -1 THEN Reject(promise, "notfound", e.name)
                  ELSE IF ~StrictEquals(e.offset, index[found + 1].offset)
                  THEN Reject(promise, "offset", e.name)
                  ELSE promise]
    ELSE [count |-> count, promise |-> promise]

\* the 'ready' handler of slowValidateIndex (lines 244-253), after zip.close()
onReady(kind, index, count, promise) ==
    Resolve(IF kind # "array" \/ Len(index) # count
            THEN Reject(promise, "count", "")
            ELSE promise)

Files ==
    { Container(rootSig, es, junk) :
          rootSig \in BOOLEAN, es \in IndexChoices, junk \in {0, 1} }

Init ==
    /\ IndexIdle
    /\ DirIdle
    /\ CodecIdle
    /\ file \in Files
    /\ \/ called \in {"getIndexReader", "validate"} /\ performIndexValidation \in BOOLEAN
       \/ called \in {"validateIndex", "getZipReader", "getDBReader"}
            /\ performIndexValidation = FALSE
    /\ pc = "start"
    /\ handles = {}
    /\ indexKind = "none"
    /\ zipState = "none"
    /\ svPos = 0
    /\ zipFileEntriesCount = 0
    /\ svPromise = NoPromise
    /\ backend = "none"
    /\ lastRead = NoRead
    /\ log = {}

zipVars == <<zipState, svPos, zipFileEntriesCount, svPromise>>
idleVars == <<searchHash, op, findResult, searchResult, dirVars, codecVars>>

\* readIndex line 375: fsExtra.open.  When it rejects, no handle exists and
\* the chain ends in the catch (lines 404-407)
ReadIndexOpen ==
    /\ pc = "start"
    /\ called \in {"getIndexReader", "validateIndex", "validate"}
    /\ \E ok \in BOOLEAN :
          IF ok
          THEN /\ handles' = handles \cup {"readIndex"}
               /\ pc' = "ri_chain"
               /\ UNCHANGED log
          ELSE /\ pc' = "failed"
               /\ log' = log \cup {"readIndex error"}
               /\ UNCHANGED handles
    /\ UNCHANGED <<file, called, performIndexValidation, indexKind, zipVars, backend,
                   lastRead, zipIndex, quick, report, idleVars>>

\* readIndex lines 376-411: the chain, its catch and its finally, which
\* closes the handle whatever the chain did; then getIndexReader line 429
ReadIndexChain ==
    /\ pc = "ri_chain"
    /\ \E ioOk \in BOOLEAN :
          LET r == IF ioOk THEN readIndexChain(file, "@3dtilesIndex1@")
                   ELSE IndexError("IOError")
          IN  IF r.kind \in {"array", "number"}
              THEN /\ zipIndex' = r.items
                   /\ indexKind' = r.kind
                   /\ log' = IF r.kind = "number"
                             THEN log \cup {"bad index buffer length"} ELSE log
                   /\ \/ /\ called \in {"getIndexReader", "validate"}
                         /\ quick' = FALSE
                         /\ pc' = IF performIndexValidation THEN "v_start" ELSE "g_open"
                      \/ /\ called = "validateIndex"
                         /\ quick' \in BOOLEAN
                         /\ pc' = "v_start"
              ELSE /\ pc' = "failed"
                   /\ log' = log \cup {"readIndex error"}
                   /\ UNCHANGED <<zipIndex, indexKind, quick>>
    /\ handles' = handles \ {"readIndex"}
    /\ UNCHANGED <<file, called, performIndexValidation, zipVars, backend, lastRead,
                   report, idleVars>>

\* validateIndex lines 279-314: the ordering pass and the lookup of the root
ValidateStart ==
    /\ pc = "v_start"
    /\ LET ord == checkOrdering(zipIndex)
           rootIndex == zipIndexFind(zipIndex, md5("tileset.json"))
       IN  /\ report' = [valid |-> ord.valid /\ rootIndex # -1,
                         wrongOrder |-> ord.wrongOrder,
                         collisions |-> ord.collisions,
                         rootFound |-> rootIndex # -1,
                         rootRead |-> FALSE,
                         slowRan |-> FALSE]
           /\ log' = log \cup (IF ord.wrongOrder # {} THEN {"wrong sort order"} ELSE {})
                         \cup (IF ord.collisions # <<>> THEN {"hash collision"} ELSE {})
                         \cup (IF rootIndex = -1 THEN {"no root key"} ELSE {})
           /\ pc' = IF rootIndex = -1 THEN "v_decide" ELSE "v_open"
    /\ UNCHANGED <<file, called, performIndexValidation, handles, indexKind, zipVars,
                   backend, lastRead, zipIndex, quick, idleVars>>

\* validateIndex line 315: fsExtra.open, outside the try
ValidateRootOpen ==
    /\ pc = "v_open"
    /\ \E ok \in BOOLEAN :
          IF ok
          THEN /\ handles' = handles \cup {"root"}
               /\ pc' = "v_read"
          ELSE /\ pc' = "failed"
               /\ UNCHANGED handles
    /\ UNCHANGED <<file, called, performIndexValidation, indexKind, zipVars, backend,
                   lastRead, log, zipIndex, quick, report, idleVars>>

\* validateIndex lines 316-323: the root's local header is read, a failure
\* clears valid, the handle is closed
ValidateRootRead ==
    /\ pc = "v_read"
    /\ \E ioOk \in BOOLEAN :
          LET rootIndex == zipIndexFind(zipIndex, md5("tileset.json"))
              header == readZipLocalFileHeader(file, zipIndex[rootIndex + 1].offset,
                                               "tileset.json")
              good == ioOk /\ header.err = "none"
          IN  /\ report' = [report EXCEPT !.valid = IF good THEN @ ELSE FALSE,
                                          !.rootRead = TRUE]
              /\ log' = IF good THEN log ELSE log \cup {"root read error"}
    /\ handles' = handles \ {"root"}
    /\ pc' = "v_decide"
    /\ UNCHANGED <<file, called, performIndexValidation, indexKind, zipVars, backend,
                   lastRead, zipIndex, quick, idleVars>>

\* validateIndex lines 326-332: the thorough pass starts (slowValidateIndex
\* lines 234-240, new StreamZip), or validateIndex returns
ValidateDecide ==
    /\ pc = "v_decide"
    /\ IF slowValidationDue(quick, report.valid)
       THEN /\ zipState' = "opening"
            /\ svPos' = 1
            /\ zipFileEntriesCount' = 0
            /\ svPromise' = [state |-> "pending", reason |-> "none", name |-> ""]
            /\ report' = [report EXCEPT !.slowRan = TRUE]
            /\ pc' = "sv_wait"
            /\ UNCHANGED log
       ELSE /\ pc' = "v_done"
            /\ log' = log \cup {IF report.valid THEN "index valid" ELSE "index invalid"}
            /\ UNCHANGED <<zipVars, report>>
    /\ UNCHANGED <<file, called, performIndexValidation, handles, indexKind, backend,
                   lastRead, zipIndex, quick, idleVars>>

\* StreamZip opens the container; a failure is an 'error' event (lines 241-243)
ZipOpen ==
    /\ zipState = "opening"
    /\ \E ok \in BOOLEAN :
          IF ok
          THEN /\ handles' = handles \cup {"zip"}
               /\ zipState' = "entries"
               /\ UNCHANGED svPromise
          ELSE /\ zipState' = "errored"
               /\ svPromise' = Reject(svPromise, "error", "")
               /\ UNCHANGED handles
    /\ UNCHANGED <<file, called, performIndexValidation, pc, indexKind, svPos,
                   zipFileEntriesCount, backend, lastRead, log, zipIndex, quick, report,
                   idleVars>>

\* an 'entry' event (lines 254-269)
ZipEntry ==
    /\ zipState = "entries"
    /\ svPos <= Len(Entries)
    /\ LET r == onEntry(zipIndex, Entries[svPos], zipFileEntriesCount, svPromise)
       IN  /\ zipFileEntriesCount' = r.count
           /\ svPromise' = r.promise
    /\ svPos' = svPos + 1
    /\ UNCHANGED <<file, called, performIndexValidation, pc, handles, indexKind, zipState,
                   backend, lastRead, log, zipIndex, quick, report, idleVars>>

\* the 'ready' event (lines 244-253): zip.close(), then the count check
ZipReady ==
    /\ zipState = "entries"
    /\ svPos > Len(Entries)
    /\ handles' = handles \ {"zip"}
    /\ svPromise' = onReady(indexKind, zipIndex, zipFileEntriesCount, svPromise)
    /\ zipState' = "closed"
    /\ UNCHANGED <<file, called, performIndexValidation, pc, indexKind, svPos,
                   zipFileEntriesCount, backend, lastRead, log, zipIndex, quick, report,
                   idleVars>>

\* an 'error' event while the container is enumerated (lines 241-243):
\* the promise is rejected, nothing closes the StreamZip
ZipError ==
    /\ zipState = "entries"
    /\ svPos <= Len(Entries)
    /\ svPromise' = Reject(svPromise, "error", "")
    /\ zipState' = "errored"
    /\ UNCHANGED <<file, called, performIndexValidation, pc, handles, indexKind, svPos,
                   zipFileEntriesCount, backend, lastRead, log, zipIndex, quick, report,
                   idleVars>>

\* the promise is settled: the .catch of lines 272-275 turns a rejection
\* into false, validateIndex takes the value and returns it (327-332)
SlowValidateReturn ==
    /\ pc = "sv_wait"
    /\ svPromise.state \in {"resolved", "rejected"}
    /\ report' = [report EXCEPT !.valid = (svPromise.state = "resolved")]
    /\ log' = log \cup {IF svPromise.state = "resolved" THEN "index valid"
                        ELSE "index invalid"}
    /\ pc' = "v_done"
    /\ UNCHANGED <<file, called, performIndexValidation, handles, indexKind, zipVars,
                   backend, lastRead, zipIndex, quick, idleVars>>

\* validateIndex has returned: to its caller, or to getIndexReader, which
\* throws when the index is not valid (lines 430-434)
ValidateDone ==
    /\ pc = "v_done"
    /\ pc' = IF called = "validateIndex" THEN "validated"
             ELSE IF report.valid THEN "g_open" ELSE "failed"
    /\ UNCHANGED <<file, called, performIndexValidation, handles, indexKind, zipVars,
                   backend, lastRead, log, zipIndex, quick, report, idleVars>>

\* getIndexReader line 436: the reader's handle; then the reader is returned
ReaderOpen ==
    /\ pc = "g_open"
    /\ \E ok \in BOOLEAN :
          IF ok
          THEN /\ handles' = handles \cup {"reader"}
               /\ backend' = "index"
               /\ pc' = "ready"
          ELSE /\ pc' = "failed"
               /\ UNCHANGED <<handles, backend>>
    /\ UNCHANGED <<file, called, performIndexValidation, indexKind, zipVars, lastRead,
                   log, zipIndex, quick, report, idleVars>>

ReadValue(data) == [outcome |-> "value", err |-> "", data |-> data]
ReadUndefined == [outcome |-> "undefined", err |-> "", data |-> <<>>]
ReadError(kind) == [outcome |-> "error", err |-> kind, data |-> <<>>]

\* line 443
fileDataOffset(offset, header) ==
    offset.v + ZIP_LOCAL_FILE_HEADER_STATIC_SIZE + header.filename_size + header.extra_size

\* readData of getIndexReader (lines 438-450)
indexReadData(f, index, path) ==
    LET normalizedPath == normalizePath(path)
        match == searchIndexHash(index, md5(normalizedPath))
        header == readZipLocalFileHeader(f, match.offset, path)
    IN  IF match.found
        THEN IF header.err # "none" THEN ReadError(header.err)
             ELSE ReadValue(FileRead(f, fileDataOffset(match.offset, header),
                                     header.comp_size))
        ELSE ReadError("NotFound")

\* readBinary of getZipReader (lines 486-488): zip.entryDataSync(path) throws
\* 'Entry not found' for a name the StreamZip does not hold
zipReadData(path) ==
    IF path \in StoredNames THEN ReadValue(StoredData(path)) ELSE ReadError("NotFound")

\* readData of getDBReader (sqlite.js lines 25-30): stmt.get returns the row,
\* or undefined when no row has the key
dbReadData(path) ==
    LET normalizedPath == normalizePath(path)
    IN  IF normalizedPath \in StoredNames THEN ReadValue(StoredData(normalizedPath))
        ELSE ReadUndefined

\* readJson of getDBReader (sqlite.js lines 34-45): buffer.content of
\* undefined throws a TypeError
dbReadJson(path) ==
    LET buffer == dbReadData(path)
    IN  IF buffer.outcome = "undefined" THEN ReadError("TypeError")
        ELSE ReadValue(bufferToJson(buffer.data))

\* readJson of the indexed and of the enumerating reader
thenBufferToJson(r) == IF r.outcome = "value" THEN ReadValue(bufferToJson(r.data)) ELSE r

\* getZipReader lines 461-483
ConstructZipReader ==
    /\ pc = "start"
    /\ called = "getZipReader"
    /\ \E ok \in BOOLEAN :
          IF ok
          THEN /\ handles' = handles \cup {"zipreader"}
               /\ backend' = "zip"
               /\ pc' = "ready"
               /\ UNCHANGED log
          ELSE /\ pc' = "failed"
               /\ log' = log \cup {"failed to read as zip archive"}
               /\ UNCHANGED <<handles, backend>>
    /\ UNCHANGED <<file, called, performIndexValidation, indexKind, zipVars, lastRead,
                   zipIndex, quick, report, idleVars>>

\* getDBReader (sqlite.js lines 16-23): new Database throws when the file
\* cannot be opened
ConstructDBReader ==
    /\ pc = "start"
    /\ called = "getDBReader"
    /\ \E ok \in BOOLEAN :
          IF ok
          THEN /\ backend' = "db"
               /\ pc' = "ready"
          ELSE /\ pc' = "failed"
               /\ UNCHANGED backend
    /\ UNCHANGED <<file, called, performIndexValidation, handles, indexKind, zipVars,
                   lastRead, log, zipIndex, quick, report, idleVars>>

\* mutation: the caller returns when the indexed reader cannot be built
fallbackReader_givingUp(zipOk) == [pc |-> "ended", backend |-> "none"]

\* validate, lines 74-83: what the catch of the .3tz branch leaves behind,
\* given whether getZipReader returns a reader
fallbackReader(zipOk) ==
    IF zipOk THEN [pc |-> "ready", backend |-> "zip"]
    ELSE [pc |-> "ended", backend |-> "none"]

\* validate on a .3tz input, lines 74-83: getIndexReader has thrown, the
\* catch logs and calls getZipReader; when that throws too, validate returns
FallbackToZipReader ==
    /\ pc = "failed"
    /\ called = "validate"
    /\ \E zipOk \in BOOLEAN :
          LET r == fallbackReader(zipOk)
          IN  /\ pc' = r.pc
              /\ backend' = r.backend
              /\ handles' = IF zipOk THEN handles \cup {"zipreader"} ELSE handles
              /\ log' = log \cup {"attempting to read as plain zip"}
                            \cup (IF zipOk THEN {} ELSE {"failed to read as zip archive"})
    /\ UNCHANGED <<file, called, performIndexValidation, indexKind, zipVars, lastRead,
                   zipIndex, quick, report, idleVars>>

ReadBinary ==
    /\ pc = "ready"
    /\ \E path \in ReadPaths :
          LET r == CASE backend = "index" -> indexReadData(file, zipIndex, path)
                     [] backend = "zip" -> zipReadData(path)
                     [] backend = "db" -> dbReadData(path)
          IN  /\ lastRead' = [op |-> "readBinary", path |-> path, outcome |-> r.outcome,
                              err |-> r.err, data |-> r.data]
              /\ log' = IF backend = "index" /\ r.err = "NotFound"
                        THEN log \cup {"couldn't find"} ELSE log
    /\ UNCHANGED <<file, called, performIndexValidation, pc, handles, indexKind, zipVars,
                   backend, zipIndex, quick, report, idleVars>>

ReadJson ==
    /\ pc = "ready"
    /\ \E path \in ReadPaths :
          LET r == CASE backend = "index" ->
                            thenBufferToJson(indexReadData(file, zipIndex, path))
                     [] backend = "zip" -> thenBufferToJson(zipReadData(path))
                     [] backend = "db" -> dbReadJson(path)
          IN  /\ lastRead' = [op |-> "readJson", path |-> path, outcome |-> r.outcome,
                              err |-> r.err, data |-> r.data]
              /\ log' = IF backend = "index" /\ r.err = "NotFound"
                        THEN log \cup {"couldn't find"} ELSE log
    /\ UNCHANGED <<file, called, performIndexValidation, pc, handles, indexKind, zipVars,
                   backend, zipIndex, quick, report, idleVars>>

Next ==
    \/ ReadIndexOpen
    \/ ReadIndexChain
    \/ ValidateStart
    \/ ValidateRootOpen
    \/ ValidateRootRead
    \/ ValidateDecide
    \/ ZipOpen
    \/ ZipEntry
    \/ ZipReady
    \/ ZipError
    \/ SlowValidateReturn
    \/ ValidateDone
    \/ ReaderOpen
    \/ ConstructZipReader
    \/ ConstructDBReader
    \/ FallbackToZipReader
    \/ ReadBinary
    \/ ReadJson

Spec == Init /\ [][Next]_vars

(***************************************************************************)
(* The word-wise order of the index format, stated on its own: bytes 0-7   *)
(* as a little-endian word first, bytes 8-15 as a little-endian word next. *)
(***************************************************************************)
RECURSIVE WordValue(_, _, _)
WordValue(h, first, k) ==
    IF k = 0 THEN 0 ELSE h[first + k - 1] * (2 ^ (8 * (k - 1))) + WordValue(h, first, k - 1)

WordWisePrecedes(a, b) ==
    LET a1 == WordValue(a, 1, 4)
        b1 == WordValue(b, 1, 4)
        a2 == WordValue(a, 9, 4)
        b2 == WordValue(b, 9, 4)
    IN  a1 < b1 \/ (a1 = b1 /\ a2 < b2)

StrictlyAscending(index) ==
    \A i \in 1..(Len(index) - 1) : WordWisePrecedes(index[i].md5hash, index[i + 1].md5hash)

Positions(index, h) == { i \in 1..Len(index) : index[i].md5hash = h }

SeqRange(q) == { q[i] : i \in 1..Len(q) }

\* C1: on every strictly word-wise ascending index, zipIndexFind returns the
\* position of the entry whose 16-byte hash equals the searched hash, and
\* searchIndex returns that entry (so exactly its stored offset), when such
\* an entry exists; both return not-found (-1, undefined) for every hash
\* that is not in the index.
C1_LookupExact ==
    StrictlyAscending(zipIndex) =>
        /\ op = "find" =>
              IF Positions(zipIndex, searchHash) = {}
              THEN findResult = -1
              ELSE findResult + 1 \in Positions(zipIndex, searchHash)
        /\ op = "search" =>
              IF Positions(zipIndex, searchHash) = {}
              THEN ~searchResult.found /\ searchResult.offset = Undefined
              ELSE /\ searchResult.found
                   /\ searchResult.md5hash = searchHash
                   /\ \E p \in Positions(zipIndex, searchHash) :
                         searchResult.offset = zipIndex[p].offset

\* a three-entry ascending index whose order differs from the byte-wise
\* order, searched for its first entry, which is found with its offset
C1_Witness ==
    /\ op = "search"
    /\ Len(zipIndex) = MaxIndexLen
    /\ StrictlyAscending(zipIndex)
    /\ BufferCompare(zipIndex[1].md5hash, zipIndex[2].md5hash) > 0
    /\ searchHash = zipIndex[1].md5hash
    /\ searchResult.found
    /\ searchResult.offset = OffsetAt(0)

\* C2: for every i > 0 the ordering pass of validateIndex warns about i, and
\* makes the index invalid, exactly when entry[i-1] does not strictly
\* word-wise precede entry[i]; it records the pair (i-1, i) as a collision
\* exactly when the two hashes are byte-identical; an index with an
\* adjacent duplicate hash is never declared valid.
C2_OrderingCheck ==
    op = "validate" =>
        LET n == Len(zipIndex)
            violating == { i \in 1..(n - 1) :
                             ~WordWisePrecedes(zipIndex[i].md5hash, zipIndex[i + 1].md5hash) }
            duplicates == { i \in 1..(n - 1) : zipIndex[i].md5hash = zipIndex[i + 1].md5hash }
        IN  /\ report.wrongOrder = violating
            /\ violating # {} => ~report.valid
            /\ SeqRange(report.collisions) = { <<i - 1, i>> : i \in duplicates }
            /\ Len(report.collisions) = Cardinality(duplicates)
            /\ duplicates # {} => ~report.valid

\* an index with one adjacent duplicate and one descending pair was checked
C2_Witness ==
    /\ op = "validate"
    /\ Len(zipIndex) = MaxIndexLen
    /\ report.collisions = << <<0, 1>> >>
    /\ report.wrongOrder = {1, 2}
    /\ ~report.valid

(***************************************************************************)
(* The extra-field region read record by record: each record is a 2-byte   *)
(* tag, a 2-byte size and size bytes of data.                              *)
(***************************************************************************)
RECURSIVE Zip64RecordAt(_, _, _)
\* 0-based position of the first tag-0x0001, size-8 record in [cur, end), or -1
Zip64RecordAt(buffer, cur, end) ==
    IF cur + 4 > end THEN -1
    ELSE IF readUInt16LE(buffer, cur) = 1 /\ readUInt16LE(buffer, cur + 2) = 8 THEN cur
    ELSE Zip64RecordAt(buffer, cur + 4 + readUInt16LE(buffer, cur + 2), end)

Zip64RecordOf(buffer) ==
    Zip64RecordAt(buffer, ZIP_CENTRAL_DIRECTORY_STATIC_SIZE + readUInt16LE(buffer, 28),
                  endExtrasOffset(buffer))

SentinelEntryParsed ==
    /\ dpc = "done"
    /\ dirHeaderChecks(lastEntry.buffer, "@3dtilesIndex1@").err = "scan"

HasEndMarker(buffer) ==
    \E i \in 0..(Len(buffer) - 4) : readUInt32LE(buffer, i) = ZIP_END_OF_CENTRAL_DIRECTORY_HEADER_SIG

\* C3: when the entry's 32-bit offset is 0xFFFFFFFF, parsing resolves the
\* offset to the 64-bit payload of the tag-0x0001, size-8 record wherever it
\* sits in the extra-field region, and fails with 'No zip64 extended offset
\* found' when the region holds no such record.
C3_Zip64OffsetResolved ==
    SentinelEntryParsed =>
        LET at == Zip64RecordOf(lastEntry.buffer)
        IN  IF at # -1
            THEN /\ dirResult.err = "none"
                 /\ dirResult.offset = BigInt(readBigUInt64LE(lastEntry.buffer, at + 4))
            ELSE dirResult.err = "MissingZip64Offset"

\* C10: getLastCentralDirectoryEntry fails whenever the trailing window
\* holds no end-of-directory marker, and returns a directory-entry byte
\* range (a slice that starts at a directory entry signature) only when the
\* end marker is present.
C10_NoEndMarkerFails ==
    dpc \notin {"idle", "start"} =>
        /\ ~HasEndMarker(window) => lastEntry.failed
        /\ (~lastEntry.failed /\ lastEntry.start > 0) => HasEndMarker(window)

(***************************************************************************)
(* The container's real file entries and what a read should deliver,       *)
(* stated from the container's bytes.                                      *)
(***************************************************************************)
RealEntries ==
    { Entries[i] : i \in { j \in 1..Len(Entries) :
                             Entries[j].isFile /\ Entries[j].name # "@3dtilesIndex1@" } }

\* the index disagrees with the container: another number of entries, or a
\* real entry whose hash is missing or stored with another offset
IndexMismatch(index) ==
    \/ Len(index) # Cardinality(RealEntries)
    \/ \E e \in RealEntries :
          ~\E i \in 1..Len(index) :
              index[i].md5hash = md5(e.name) /\ index[i].offset.v = e.offset.v

ValidateIndexReturned == "index valid" \in log \/ "index invalid" \in log

\* the compressed-size bytes after the local entry that starts at off
PayloadAt(f, off) ==
    LET start == off + 30 + ReadUIntLE(f, off + 26, 2) + ReadUIntLE(f, off + 28, 2)
    IN  SubSeq(f, start + 1, start + ReadUIntLE(f, off + 18, 4))

\* the length of the index entry's payload
IndexBlobLength(f) == ReadUIntLE(f, IndexOffset + 18, 4)

\* C4: when the thorough pass finds the index and the container to disagree
\* (the number of real file entries differs from the index's, or a real
\* entry's hash is absent or has another offset) validateIndex reports the
\* index invalid and the failure identifies the count mismatch or the
\* mismatching entry; a later 'ready' event does not make it valid.
C4_MismatchIdentified ==
    (ValidateIndexReturned /\ report.slowRan /\ IndexMismatch(zipIndex)
        /\ svPromise.reason \in {"count", "notfound", "offset"}) =>
        /\ ~report.valid
        /\ \/ "index has the wrong number of entries" \in log
           \/ "entry not found in index" \in log
           \/ "entry has incorrect offset" \in log

\* C5: validateIndex runs the ordering pass and the root check on every
\* call, the root check also after an ordering violation; the container is
\* enumerated only if the thorough pass was requested and both cheaper
\* checks passed; an index that fails one of them is reported invalid
\* without any enumeration.
C5_CheapChecksFirst ==
    LET violating == { i \in 1..(Len(zipIndex) - 1) :
                         ~WordWisePrecedes(zipIndex[i].md5hash, zipIndex[i + 1].md5hash) }
        rootFailed == ~report.rootFound \/ "root read error" \in log
    IN  /\ zipState # "none" =>
              /\ ~quick
              /\ violating = {}
              /\ report.rootFound /\ report.rootRead /\ "root read error" \notin log
        /\ ValidateIndexReturned =>
              /\ report.wrongOrder = violating
              /\ IF report.rootFound THEN report.rootRead ELSE "no root key" \in log
              /\ (violating # {} \/ rootFailed) =>
                     ~report.valid /\ ~report.slowRan /\ zipState = "none"

\* a thorough validation of an index with an ordering violation: the root's
\* local header was still read, and the container was not enumerated
C5_Witness ==
    /\ pc = "validated"
    /\ ~quick
    /\ report.wrongOrder # {}
    /\ report.rootFound
    /\ report.rootRead
    /\ ~report.valid
    /\ zipState = "none"

\* C6: for an index blob whose length is not a multiple of 24, readIndex
\* fails (it does not resolve) and getIndexReader, with or without index
\* validation, hands out no reader.
C6_MalformedIndexFails ==
    (called \in {"getIndexReader", "validateIndex"} /\ IndexBlobLength(file) % 24 # 0) =>
        /\ indexKind = "none"
        /\ backend # "index"

\* C7: for every path whose normalized form hashes to an index entry (of an
\* ascending index, stored with the offset of a well-formed local entry),
\* the indexed reader's readBinary returns exactly the compressed-size bytes that start
\* at offset + 30 + filename size + extra-field size, whether or not the
\* path was given in normalized form.
C7_ReadBinaryExact ==
    (backend = "index" /\ lastRead.op = "readBinary" /\ StrictlyAscending(zipIndex)
        /\ \E i \in 1..Len(zipIndex) :
              /\ zipIndex[i].md5hash = md5(normalizePath(lastRead.path))
              /\ normalizePath(lastRead.path) \in StoredNames
              /\ zipIndex[i].offset.v = RealOffset(normalizePath(lastRead.path))
              /\ readUInt32LE(file, zipIndex[i].offset.v) = ZIP_LOCAL_FILE_HEADER_SIG) =>
        /\ lastRead.outcome = "value"
        /\ lastRead.data = PayloadAt(file, RealOffset(normalizePath(lastRead.path)))

\* whether the reader that was constructed can resolve the path
Resolvable(path) ==
    CASE backend = "index" -> Positions(zipIndex, md5(normalizePath(path))) # {}
      [] backend = "zip" -> path \in StoredNames
      [] backend = "db" -> normalizePath(path) \in StoredNames
      [] OTHER -> FALSE

\* C8: for each of the three readers, readBinary and readJson on a path the
\* backend cannot resolve fail with a not-found error; none returns a value
\* (undefined, an empty row) for an absent path.
C8_AbsentPathFails ==
    (lastRead.op # "none" /\ ~Resolvable(lastRead.path)) =>
        lastRead.outcome = "error" /\ lastRead.err = "NotFound"

\* C9: every container handle opened while the indexed reader is
\* constructed is released on every exit path: when getIndexReader has
\* failed (and StreamZip has no event left to emit), no handle is open.
C9_HandlesReleased ==
    (called = "getIndexReader" /\ pc = "failed"
        /\ zipState \in {"none", "closed", "errored"}) =>
        handles = {}

(***************************************************************************)
(* The order in which validate builds the readers of a .3tz input.         *)
(***************************************************************************)
\* C11: for a .3tz input the indexed reader is constructed first; when its
\* construction throws, the enumerating zip reader is constructed next and
\* serves the reads; only when that fails too does validate end without
\* reading; the zip reader is never tried before the indexed reader failed.
C11_IndexedReaderFirst ==
    [][called = "validate" =>
          /\ (backend' = "zip" /\ backend # "zip") => (pc = "failed" /\ backend = "none")
          /\ ("failed to read as zip archive" \in log'
                 /\ "failed to read as zip archive" \notin log) => pc = "failed"
          /\ (pc = "failed" /\ pc' # pc) =>
                 \/ pc' = "ready" /\ backend' = "zip"
                 \/ pc' = "ended" /\ backend' = "none"
                       /\ "failed to read as zip archive" \in log'
          /\ pc' = "ended" => (pc \in {"failed", "ended"} /\ lastRead' = NoRead)
          /\ backend' = "index" => "attempting to read as plain zip" \notin log'
          /\ lastRead' # lastRead =>
                 (pc = "ready" /\ backend \in {"index", "zip"} /\ backend' = backend)]_vars

\* validate fell back after the index was found invalid and read through
\* the enumerating reader
C11_Witness ==
    /\ called = "validate"
    /\ "index invalid" \in log
    /\ backend = "zip"
    /\ lastRead.op = "readJson"
    /\ lastRead.outcome = "value"

(***************************************************************************)
(* Termination of the directory entry parse.                               *)
(***************************************************************************)
\* C12: parsing a directory entry terminates for every buffer: once the
\* scan of the extra-field region has begun it ends, with the 64-bit offset
\* or with a failure, whatever tags and sizes the records declare.
C12_ScanTerminates == (dpc = "scan") ~> (dpc = "done")

(***************************************************************************)
(* The general-purpose flags of a directory entry.                         *)
(***************************************************************************)
\* the flag word of a parsed entry that carries the directory signature
ParsedFlagWord == ReadUIntLE(lastEntry.buffer, 8, 2)

SignedEntryParsed ==
    /\ dpc = "done"
    /\ Len(lastEntry.buffer) >= ZIP_CENTRAL_DIRECTORY_STATIC_SIZE
    /\ readUInt32LE(lastEntry.buffer, 0) = ZIP_START_OF_CENTRAL_DIRECTORY_HEADER_SIG

\* C13: parsing a directory entry with a correct signature fails with
\* DisallowedFeature whenever one of the general-purpose bits 0, 3, 5, 13 is
\* set, whatever the other fields hold, and never fails so when none is set.
C13_DisallowedBitsRejected ==
    SignedEntryParsed =>
        (dirResult.err = "DisallowedFeature"
            <=> \E b \in {0, 3, 5, 13} : (ParsedFlagWord \div (2 ^ b)) % 2 = 1)

\* an entry with stored compression, the expected name and a plain offset
\* was rejected for bit 13 alone
C13_Witness ==
    /\ SignedEntryParsed
    /\ ParsedFlagWord = 8192
    /\ readUInt16LE(lastEntry.buffer, 10) = 0
    /\ Slice(lastEntry.buffer, 46, 46 + 15) = Utf8("@3dtilesIndex1@")
    /\ readUInt32LE(lastEntry.buffer, 42) # OFFSET_IN_ZIP64_EXTRA
    /\ dirResult.err = "DisallowedFeature"

(***************************************************************************)
(* The index blob read back.                                               *)
(***************************************************************************)
\* C14: a blob laid out from n (hash, offset) pairs as consecutive 24-byte
\* records is parsed into exactly n entries equal to the pairs, in their
\* order, also when the pairs are unsorted or repeat a hash.
C14_RoundTrip ==
    (op \in {"array", "number"} /\ Len(indexData) = 24 * Len(pairs)) =>
        /\ op = "array"
        /\ Len(zipIndex) = Len(pairs)
        /\ \A i \in 1..Len(pairs) :
              /\ zipIndex[i].md5hash = pairs[i].md5hash
              /\ zipIndex[i].offset = [t |-> "bigint", v |-> pairs[i].offset]

\* two pairs with the same hash, the larger offset first, were read back
C14_Witness ==
    /\ op = "array"
    /\ Len(pairs) = 2
    /\ pairs[1].md5hash = pairs[2].md5hash
    /\ pairs[1].offset = 2147483647
    /\ pairs[2].offset = 66051
    /\ Len(zipIndex) = 2

(***************************************************************************)
(* The thorough pass on an index that agrees with the container.           *)
(***************************************************************************)
\* C15: when the container was enumerated without error and the index
\* holds, for every real file entry, exactly one entry with the MD5 of its
\* name and its offset, and nothing else, validateIndex with the thorough
\* pass reports the index valid.
C15_ConsistentIndexAccepted ==
    (ValidateIndexReturned /\ report.slowRan /\ zipState = "closed"
        /\ ~IndexMismatch(zipIndex)) =>
        report.valid

(***************************************************************************)
(* The index payload that readIndex returns.                               *)
(***************************************************************************)
\* C16: whenever readIndex resolves with an index, the index holds the
\* whole payload of the index entry: as many entries as the local record's
\* compressed size divided by 24, each as the payload stores it, whatever
\* the local extra-field size and the compressed size the directory
\* record declares.
C16_WholePayloadReturned ==
    (called = "readIndex" /\ pc = "resolved" /\ indexKind = "array") =>
        /\ Len(zipIndex) = IndexBlobLength(file) \div 24
        /\ \A i \in 1..Len(zipIndex) :
              zipIndex[i].md5hash
                  = SubSeq(PayloadAt(file, IndexOffset), 24 * (i - 1) + 1, 24 * (i - 1) + 16)

====
